---- MODULE Spec2Model ----
(***************************************************************************)
(* Ramona Shop back end: the Cart domain entity (app/domain/models/cart.py) *)
(* and the cart use cases (app/application/use_cases/cart) that drive it    *)
(* through the CartRepository and ProductRepository interfaces.             *)
(*                                                                          *)
(* Spec    the Cart entity alone: one cart, starting empty, on which        *)
(*         add_item, remove_item and update_item_quantity are called with   *)
(*         arbitrary arguments.                                             *)
(* SpecUC  the use cases GetCart, AddToCart, RemoveFromCart and             *)
(*         UpdateCartItem, one request at a time, against the in-memory     *)
(*         repositories the use-case tests wire them to.                    *)
(*                                                                          *)
(* Money is held in cents: Decimal("10.00") is 1000.  Python's int is       *)
(* unbounded and Decimal multiplication and addition are exact below 28     *)
(* significant digits, so within the bounds no arithmetic rounds or wraps.  *)
(***************************************************************************)
EXTENDS Integers, Sequences, FiniteSets, TLC

\* ---------------------------------------------------------------- bounds

\* Largest quantity a single call carries (requests also try -1).
MaxQty == 2

\* Calls that would merge an item beyond this quantity are not explored.
MaxItemQty == 4

\* Requests that would leave more than this many units in the cart repository
\* (the quantities of all stored items together) are not explored.
MaxStoredUnits == 3

\* ------------------------------------------------------- values and errors

\* Product ids the calls on the Cart entity carry.
ProductIds == {"p1", "p2", "p3"}

\* The products the product repository holds; "p3" is the id it does not know.
KnownProductIds == {"p1", "p2"}

\* The users that send requests.
UserIds == {"u1", "u2"}

\* The values str(uuid.uuid4()) can return.
Uuids == {"c1", "c2"}

\* Python's None, and a present optional value.
None == <<>>

Some(x) == <<x>>

\* No exception was raised.
NoError == [kind |-> "None", message |-> <<>>]

DomainError(kind, message) == [kind |-> kind, message |-> message]

NotFoundError(message) == DomainError("NotFoundError", message)

ValidationError(message) == DomainError("ValidationError", message)

\* Price(amount): construction fails when amount < 0.
Price(amount) ==
    [err |-> IF amount < 0
             THEN ValidationError(<<"Price cannot be negative">>)
             ELSE NoError,
     amount |-> amount]

\* A Quantity that clamps a negative value to 0 instead of rejecting it.
Quantity_clamps(value) ==
    [err |-> NoError, value |-> IF value < 0 THEN 0 ELSE value]

\* A Quantity without __post_init__: any value is accepted.
Quantity_unchecked(value) == [err |-> NoError, value |-> value]

\* Quantity(value): construction fails when value < 0.
Quantity(value) ==
    [err |-> IF value < 0
             THEN ValidationError(<<"Quantity cannot be negative">>)
             ELSE NoError,
     value |-> value]

\* The catalogue price, in cents, of each product.
PriceOf(product_id) ==
    CASE product_id = "p1" -> 1000
      [] product_id = "p2" -> 550
      [] OTHER -> 25

\* The catalogue name of each product.
NameOf(product_id) ==
    CASE product_id = "p1" -> "Shirt"
      [] product_id = "p2" -> "Shoes"
      [] OTHER -> "Hat"

\* A Product entity (the fields the cart and its response read).
Product(product_id) ==
    [id |-> product_id, name |-> NameOf(product_id),
     price |-> Price(PriceOf(product_id)).amount]

\* CartItem(product_id, product, quantity); quantity is the Quantity's value.
CartItem(product_id, product, quantity) ==
    [product_id |-> product_id, product |-> product, quantity |-> quantity]

\* The product argument of a CartItem: the resolved Product, or for "p3" also
\* None (a CartItem whose product was not loaded).
ProductArgs(product_id) ==
    IF product_id = "p3"
    THEN {None, Some(Product(product_id))}
    ELSE {Some(Product(product_id))}

\* ------------------------------------------------------------------ state

VARIABLES
    items,        \* Cart.items of the cart under test
    call,         \* the last call made on the cart
    err,          \* the exception that call raised, or NoError
    before,       \* Cart.items when that call was made
    onlyAdds,     \* no call other than add_item has been made so far
    added,        \* while onlyAdds: product_id -> sum of the quantities added
    addedIds,     \* while onlyAdds: the product ids add_item was called with
    carts,        \* cart repository: user_id -> None or Some(cart)
    request,      \* the last use-case request
    response,     \* its outcome: the error raised and the cart returned
    saves,        \* how many times that request called CartRepository.save
    cartsBefore,  \* the cart repository when that request began
    users,        \* users table: the committed rows
    sess,         \* per request in flight: where it is and what it flushed
    authRequest,  \* the last account request that ended
    authResponse, \* its outcome: the error raised and the AuthResult returned
    usersBefore,  \* the users table when that request ended, before its commit
    registered,   \* email -> what the registration that succeeded returned
    now,          \* the clock
    bearer,       \* the access token the client holds, if any
    cookie,       \* the refresh_token cookie the client holds, if any
    presented,    \* the last token request: its route, its token, its time
    outcome,      \* what that request raised or returned
    raised,       \* the last exception that reached the transport boundary
    answered,     \* the response the application gave for it
    cartRows,     \* carts table with the cart_items of each cart: the committed rows
    sql,          \* per cart request in flight: where it is, its cart, what it flushed
    raceDone,     \* the two AddToCart requests that read before either saved, as they end
    stage,        \* how far the cart lifecycle of the integration test has come
    userRows,     \* users table of the repository under test: the committed rows
    userSave,     \* the last call of UserRepository.save: its user, its error, the rows before
    addSeq,       \* per user: the successful AddToCart requests made while no other change was asked for
    positive      \* every add_item call so far carried a quantity >= 1

domainVars == <<items, call, err, before, onlyAdds, added, addedIds>>

ucVars == <<carts, request, response, saves, cartsBefore>>

tokenVars == <<bearer, cookie, presented, outcome>>

authVars == <<users, sess, authRequest, authResponse, usersBefore, registered, now>>

httpVars == <<raised, answered>>

sqlVars == <<cartRows, sql, raceDone, stage>>

repoVars == <<userRows, userSave>>

seqVars == <<addSeq>>

addVars == <<positive>>

vars == <<items, call, err, before, onlyAdds, added, addedIds,
          carts, request, response, saves, cartsBefore,
          users, sess, authRequest, authResponse, usersBefore, registered, now,
          bearer, cookie, presented, outcome,
          raised, answered,
          cartRows, sql, raceDone, stage,
          userRows, userSave,
          addSeq,
          positive>>

\* ------------------------------------------------------------ Cart entity

Min(S) == CHOOSE x \in S : \A y \in S : x <= y

\* Indices of the items of `its` whose product_id is `product_id`.
Matching(its, product_id) == {i \in 1..Len(its) : its[i].product_id = product_id}

\* add_item without the merge loop: every call appends.
add_item_always_appends(its, item) ==
    [items |-> Append(its, item), err |-> NoError]

\* add_item whose merge overwrites the quantity instead of adding to it.
add_item_overwrites(its, item) ==
    IF Matching(its, item.product_id) # {}
    THEN [items |-> [its EXCEPT ![Min(Matching(its, item.product_id))].quantity =
                                    item.quantity],
          err |-> NoError]
    ELSE [items |-> Append(its, item), err |-> NoError]

\* Cart.add_item: merge into the first item with the same product_id, else append.
add_item(its, item) ==
    IF Matching(its, item.product_id) # {}
    THEN LET i == Min(Matching(its, item.product_id))
             q == Quantity(its[i].quantity + item.quantity)
         IN  IF q.err # NoError
             THEN [items |-> its, err |-> q.err]
             ELSE [items |-> [its EXCEPT ![i].quantity = q.value], err |-> NoError]
    ELSE [items |-> Append(its, item), err |-> NoError]

\* remove_item without the length check: an absent product_id is a silent no-op.
remove_item_silent(its, product_id) ==
    [items |-> SelectSeq(its, LAMBDA i : i.product_id # product_id), err |-> NoError]

\* remove_item with the filter inverted: the matching items are the ones kept.
remove_item_keeps_match(its, product_id) ==
    LET kept == SelectSeq(its, LAMBDA i : i.product_id = product_id)
    IN  [items |-> kept,
         err |-> IF Len(kept) = Len(its)
                 THEN NotFoundError(<<"Item with product_id", product_id, "not found in cart">>)
                 ELSE NoError]

\* remove_item that takes one unit from the matching items and leaves them
\* in the cart.
remove_item_decrements(its, product_id) ==
    [items |-> [i \in 1..Len(its) |->
                   IF its[i].product_id = product_id
                   THEN [its[i] EXCEPT !.quantity = @ - 1]
                   ELSE its[i]],
     err |-> IF Matching(its, product_id) = {}
             THEN NotFoundError(<<"Item with product_id", product_id, "not found in cart">>)
             ELSE NoError]

\* Cart.remove_item: drop every item with product_id; NotFoundError if none was dropped.
remove_item(its, product_id) ==
    LET kept == SelectSeq(its, LAMBDA i : i.product_id # product_id)
    IN  [items |-> kept,
         err |-> IF Len(kept) = Len(its)
                 THEN NotFoundError(<<"Item with product_id", product_id, "not found in cart">>)
                 ELSE NoError]

\* update_item_quantity that adds the new quantity to the old one.
update_item_quantity_adds(its, product_id, quantity) ==
    IF quantity < 0
    THEN [items |-> its, err |-> ValidationError(<<"Quantity cannot be negative">>)]
    ELSE IF quantity = 0
    THEN remove_item(its, product_id)
    ELSE IF Matching(its, product_id) # {}
    THEN [items |-> [its EXCEPT ![Min(Matching(its, product_id))].quantity = @ + quantity],
          err |-> NoError]
    ELSE [items |-> its,
          err |-> NotFoundError(<<"Item with product_id", product_id, "not found in cart">>)]

\* update_item_quantity without the zero branch: 0 is stored like any quantity.
update_item_quantity_stores_zero(its, product_id, quantity) ==
    IF quantity < 0
    THEN [items |-> its, err |-> ValidationError(<<"Quantity cannot be negative">>)]
    ELSE IF Matching(its, product_id) # {}
    THEN [items |-> [its EXCEPT ![Min(Matching(its, product_id))].quantity = quantity],
          err |-> NoError]
    ELSE [items |-> its,
          err |-> NotFoundError(<<"Item with product_id", product_id, "not found in cart">>)]

\* Cart.update_item_quantity, given the value of an already constructed Quantity.
update_item_quantity(its, product_id, quantity) ==
    IF quantity < 0
    THEN [items |-> its, err |-> ValidationError(<<"Quantity cannot be negative">>)]
    ELSE IF quantity = 0
    THEN remove_item(its, product_id)
    ELSE IF Matching(its, product_id) # {}
    THEN [items |-> [its EXCEPT ![Min(Matching(its, product_id))].quantity = quantity],
          err |-> NoError]
    ELSE [items |-> its,
          err |-> NotFoundError(<<"Item with product_id", product_id, "not found in cart">>)]

RECURSIVE SumFrom(_, _)
\* sum(generator, start): fold the resolved items' price * quantity onto start.
SumFrom(its, start) ==
    IF its = <<>>
    THEN start
    ELSE SumFrom(Tail(its),
                 IF Head(its).product # None
                 THEN start + Head(its).product[1].price * Head(its).quantity
                 ELSE start)

\* total that sums the prices and forgets the quantities.
total_ignores_quantity(its) ==
    SumFrom([i \in 1..Len(its) |-> [its[i] EXCEPT !.quantity = 1]], 0)

\* Cart.total
total(its) == SumFrom(its, 0)

\* -------------------------------------------------- calls on the Cart entity

NoCall == [op |-> "none", product_id |-> "", quantity |-> 0, product |-> None]

\* cart.add_item(CartItem(product_id, product, Quantity(q)))
AddItem ==
    \E pid \in ProductIds, q \in 0..MaxQty :
      \E product \in ProductArgs(pid) :
        LET r == add_item(items, CartItem(pid, product, Quantity(q).value))
        IN  /\ \A i \in 1..Len(r.items) : r.items[i].quantity <= MaxItemQty
            /\ items' = r.items
            /\ err' = r.err
            /\ before' = items
            /\ call' = [op |-> "add_item", product_id |-> pid, quantity |-> q,
                        product |-> product]
            /\ onlyAdds' = onlyAdds
            /\ added' = IF onlyAdds THEN [added EXCEPT ![pid] = @ + q] ELSE added
            /\ positive' = (positive /\ q >= 1)
            /\ addedIds' = IF onlyAdds THEN addedIds \cup {pid} ELSE addedIds
            /\ UNCHANGED <<ucVars, authVars, tokenVars, httpVars, sqlVars, repoVars, seqVars>>

\* cart.remove_item(product_id)
RemoveItem ==
    \E pid \in ProductIds :
        LET r == remove_item(items, pid)
        IN  /\ items' = r.items
            /\ err' = r.err
            /\ before' = items
            /\ call' = [op |-> "remove_item", product_id |-> pid, quantity |-> 0,
                        product |-> None]
            /\ onlyAdds' = FALSE
            /\ added' = [p \in ProductIds |-> 0]
            /\ addedIds' = {}
            /\ UNCHANGED <<ucVars, authVars, tokenVars, httpVars, sqlVars, repoVars, seqVars, addVars>>

\* cart.update_item_quantity(product_id, Quantity(q)): Quantity(q) is built first
\* and raises for q < 0 before the method is entered.
UpdateItemQuantity ==
    \E pid \in ProductIds, q \in -1..MaxQty :
        LET qo == Quantity(q)
            r == IF qo.err # NoError
                 THEN [items |-> items, err |-> qo.err]
                 ELSE update_item_quantity(items, pid, qo.value)
        IN  /\ items' = r.items
            /\ err' = r.err
            /\ before' = items
            /\ call' = [op |-> "update_item_quantity", product_id |-> pid, quantity |-> q,
                        product |-> None]
            /\ onlyAdds' = FALSE
            /\ added' = [p \in ProductIds |-> 0]
            /\ addedIds' = {}
            /\ UNCHANGED <<ucVars, authVars, tokenVars, httpVars, sqlVars, repoVars, seqVars, addVars>>

\* ------------------------------------------------------------ repositories

\* Cart(id, user_id, items)
Cart(id, user_id, its) == [id |-> id, user_id |-> user_id, items |-> its]

\* FakeProductRepository.find_by_id: dict.get on the products it was built with.
product_find_by_id(product_id) ==
    IF product_id \in KnownProductIds THEN Some(Product(product_id)) ELSE None

\* FakeCartRepository.find_by_user_id: dict.get, the stored object itself.
find_by_user_id(store, user_id) == store[user_id]

\* FakeCartRepository.save: the dict entry of the cart's user_id is the cart.
save(store, cart) == [store EXCEPT ![cart.user_id] = Some(cart)]

\* The cart found is the stored object: what a Cart method did to its items
\* is in the repository whether or not save is then called.
Aliased(store, user_id, its) ==
    [store EXCEPT ![user_id] = Some([store[user_id][1] EXCEPT !.items = its])]

\* ---------------------------------------------------------------- use cases

Outcome(store, e, cart, nsaves) ==
    [carts |-> store, err |-> e, cart |-> cart, saves |-> nsaves]

\* GetCart.execute that saves the empty cart it makes for a user without one.
GetCart_execute_saves(store, user_id, uuid) ==
    LET found == find_by_user_id(store, user_id)
    IN  IF found = None
        THEN Outcome(save(store, Cart(uuid, user_id, <<>>)), NoError,
                     Some(Cart(uuid, user_id, <<>>)), 1)
        ELSE Outcome(store, NoError, found, 0)

\* GetCart.execute(user_id); uuid is what uuid4 returns if it is called.
GetCart_execute(store, user_id, uuid) ==
    LET found == find_by_user_id(store, user_id)
    IN  IF found = None
        THEN Outcome(store, NoError, Some(Cart(uuid, user_id, <<>>)), 0)
        ELSE Outcome(store, NoError, found, 0)

\* AddToCart.execute that never looks the product up.
AddToCart_execute_unchecked(store, input, uuid) ==
    LET found == find_by_user_id(store, input.user_id)
        cart == IF found = None THEN Cart(uuid, input.user_id, <<>>) ELSE found[1]
        q == Quantity(input.quantity)
        r == add_item(cart.items,
                      CartItem(input.product_id, product_find_by_id(input.product_id),
                               q.value))
        saved == [cart EXCEPT !.items = r.items]
    IN  IF q.err # NoError
        THEN Outcome(store, q.err, None, 0)
        ELSE Outcome(save(store, saved), NoError, Some(saved), 1)

\* AddToCart.execute that treats a missing cart as RemoveFromCart does.
AddToCart_execute_requires_cart(store, input, uuid) ==
    LET product == product_find_by_id(input.product_id)
        found == find_by_user_id(store, input.user_id)
        q == Quantity(input.quantity)
    IN  IF product = None
        THEN Outcome(store, NotFoundError(<<"Product", input.product_id, "not found">>),
                     None, 0)
        ELSE IF found = None
        THEN Outcome(store, NotFoundError(<<"Cart not found">>), None, 0)
        ELSE IF q.err # NoError
        THEN Outcome(store, q.err, None, 0)
        ELSE LET r == add_item(found[1].items,
                               CartItem(input.product_id, product, q.value))
                 saved == [found[1] EXCEPT !.items = r.items]
             IN  Outcome(save(store, saved), r.err, Some(saved), 1)

\* AddToCart.execute that starts from a new cart whether or not one is stored.
AddToCart_execute_new_cart(store, input, uuid) ==
    LET product == product_find_by_id(input.product_id)
        cart == Cart(uuid, input.user_id, <<>>)
        q == Quantity(input.quantity)
    IN  IF product = None
        THEN Outcome(store, NotFoundError(<<"Product", input.product_id, "not found">>),
                     None, 0)
        ELSE IF q.err # NoError
        THEN Outcome(store, q.err, None, 0)
        ELSE LET r == add_item(cart.items,
                               CartItem(input.product_id, product, q.value))
                 saved == [cart EXCEPT !.items = r.items]
             IN  Outcome(save(store, saved), NoError, Some(saved), 1)

\* AddToCart.execute(input)
AddToCart_execute(store, input, uuid) ==
    LET product == product_find_by_id(input.product_id)
        found == find_by_user_id(store, input.user_id)
        cart == IF found = None THEN Cart(uuid, input.user_id, <<>>) ELSE found[1]
        q == Quantity(input.quantity)
    IN  IF product = None
        THEN Outcome(store, NotFoundError(<<"Product", input.product_id, "not found">>),
                     None, 0)
        ELSE IF q.err # NoError
        THEN Outcome(store, q.err, None, 0)
        ELSE LET r == add_item(cart.items,
                               CartItem(input.product_id, product, q.value))
                 saved == [cart EXCEPT !.items = r.items]
             IN  IF r.err # NoError
                 THEN Outcome(IF found = None THEN store
                              ELSE Aliased(store, input.user_id, r.items),
                              r.err, None, 0)
                 ELSE Outcome(save(store, saved), NoError, Some(saved), 1)

\* RemoveFromCart.execute that takes a missing cart for an empty one.
RemoveFromCart_execute_creates_cart(store, user_id, product_id) ==
    LET found == find_by_user_id(store, user_id)
        its == IF found = None THEN <<>> ELSE found[1].items
        r == remove_item(its, product_id)
    IN  IF r.err # NoError
        THEN Outcome(IF found = None THEN store ELSE Aliased(store, user_id, r.items),
                     r.err, None, 0)
        ELSE LET saved == [found[1] EXCEPT !.items = r.items]
             IN  Outcome(save(store, saved), NoError, Some(saved), 1)

\* RemoveFromCart.execute(user_id, product_id)
RemoveFromCart_execute(store, user_id, product_id) ==
    LET found == find_by_user_id(store, user_id)
    IN  IF found = None
        THEN Outcome(store, NotFoundError(<<"Cart not found">>), None, 0)
        ELSE LET r == remove_item(found[1].items, product_id)
                 saved == [found[1] EXCEPT !.items = r.items]
             IN  IF r.err # NoError
                 THEN Outcome(Aliased(store, user_id, r.items), r.err, None, 0)
                 ELSE Outcome(save(store, saved), NoError, Some(saved), 1)

\* UpdateCartItem.execute that catches the error of the Cart method and saves
\* the cart as it found it.
UpdateCartItem_execute_catches(store, input) ==
    LET found == find_by_user_id(store, input.user_id)
        q == Quantity(input.quantity)
    IN  IF found = None
        THEN Outcome(store, NotFoundError(<<"Cart not found">>), None, 0)
        ELSE IF q.err # NoError
        THEN Outcome(store, q.err, None, 0)
        ELSE LET r == update_item_quantity(found[1].items, input.product_id, q.value)
                 saved == [found[1] EXCEPT !.items = r.items]
             IN  Outcome(save(store, saved), NoError, Some(saved), 1)

\* UpdateCartItem.execute that builds the Quantity before it looks the cart up.
UpdateCartItem_execute_validates_first(store, input) ==
    LET found == find_by_user_id(store, input.user_id)
        q == Quantity(input.quantity)
    IN  IF q.err # NoError
        THEN Outcome(store, q.err, None, 0)
        ELSE IF found = None
        THEN Outcome(store, NotFoundError(<<"Cart not found">>), None, 0)
        ELSE LET r == update_item_quantity(found[1].items, input.product_id, q.value)
                 saved == [found[1] EXCEPT !.items = r.items]
             IN  IF r.err # NoError
                 THEN Outcome(Aliased(store, input.user_id, r.items), r.err, None, 0)
                 ELSE Outcome(save(store, saved), NoError, Some(saved), 1)

\* UpdateCartItem.execute(input)
UpdateCartItem_execute(store, input) ==
    LET found == find_by_user_id(store, input.user_id)
        q == Quantity(input.quantity)
    IN  IF found = None
        THEN Outcome(store, NotFoundError(<<"Cart not found">>), None, 0)
        ELSE IF q.err # NoError
        THEN Outcome(store, q.err, None, 0)
        ELSE LET r == update_item_quantity(found[1].items, input.product_id, q.value)
                 saved == [found[1] EXCEPT !.items = r.items]
             IN  IF r.err # NoError
                 THEN Outcome(Aliased(store, input.user_id, r.items), r.err, None, 0)
                 ELSE Outcome(save(store, saved), NoError, Some(saved), 1)

\* ------------------------------------------------------------------ requests

RECURSIVE Units(_)
\* The quantities of the items of `its` together.
Units(its) == IF its = <<>> THEN 0 ELSE Head(its).quantity + Units(Tail(its))

RECURSIVE StoredUnits(_, _)
\* The units held by the carts of the users U in `store`.
StoredUnits(store, U) ==
    IF U = {}
    THEN 0
    ELSE LET u == CHOOSE x \in U : TRUE
         IN  (IF store[u] = None THEN 0 ELSE Units(store[u][1].items))
             + StoredUnits(store, U \ {u})

\* The ids of the stored carts; uuid4 does not return one of them again.
StoredIds(store) == {store[u][1].id : u \in {x \in UserIds : store[x] # None}}

NoRequest == [op |-> "none", user_id |-> "", product_id |-> "", quantity |-> 0]

\* No AddToCart of the user has succeeded yet.
NoAdds == [only |-> TRUE, ids |-> {}, sum |-> [p \in ProductIds |-> 0],
           cart_id |-> None]

\* What is known of the user's AddToCart requests after the request req ended
\* with outcome o: a successful AddToCart adds its quantity to the sum of its
\* product, and the first one tells the id of the cart; a RemoveFromCart or
\* an UpdateCartItem ends the sequence of additions.
NextAddSeq(seq, req, o) ==
    IF req.op \in {"RemoveFromCart", "UpdateCartItem"}
    THEN [NoAdds EXCEPT !.only = FALSE]
    ELSE IF req.op = "AddToCart" /\ o.err = NoError /\ seq.only
    THEN [only |-> TRUE,
          ids |-> seq.ids \cup {req.product_id},
          sum |-> [seq.sum EXCEPT ![req.product_id] = @ + req.quantity],
          cart_id |-> IF seq.cart_id = None THEN Some(o.cart[1].id) ELSE seq.cart_id]
    ELSE seq

\* The request ran to its end with outcome o.
Served(req, o) ==
    /\ StoredUnits(o.carts, UserIds) <= MaxStoredUnits
    /\ carts' = o.carts
    /\ request' = req
    /\ response' = [err |-> o.err, cart |-> o.cart]
    /\ saves' = o.saves
    /\ cartsBefore' = carts
    /\ addSeq' = [addSeq EXCEPT ![req.user_id] = NextAddSeq(@, req, o)]
    /\ UNCHANGED <<domainVars, authVars, tokenVars, httpVars, sqlVars, repoVars, addVars>>

GetCart ==
    \E u \in UserIds, uuid \in Uuids \ StoredIds(carts) :
        Served([op |-> "GetCart", user_id |-> u, product_id |-> "", quantity |-> 0],
               GetCart_execute(carts, u, uuid))

AddToCart ==
    \E u \in UserIds, pid \in ProductIds, q \in -1..MaxQty :
      \E uuid \in Uuids \ StoredIds(carts) :
        Served([op |-> "AddToCart", user_id |-> u, product_id |-> pid, quantity |-> q],
               AddToCart_execute(carts,
                                 [user_id |-> u, product_id |-> pid, quantity |-> q],
                                 uuid))

RemoveFromCart ==
    \E u \in UserIds, pid \in ProductIds :
        Served([op |-> "RemoveFromCart", user_id |-> u, product_id |-> pid,
                quantity |-> 0],
               RemoveFromCart_execute(carts, u, pid))

UpdateCartItem ==
    \E u \in UserIds, pid \in ProductIds, q \in -1..MaxQty :
        Served([op |-> "UpdateCartItem", user_id |-> u, product_id |-> pid,
                quantity |-> q],
               UpdateCartItem_execute(carts,
                                      [user_id |-> u, product_id |-> pid, quantity |-> q]))

NextUC ==
    \/ GetCart
    \/ AddToCart
    \/ RemoveFromCart
    \/ UpdateCartItem

\* ---------------------------------------------------------------- accounts

Emails == {"ann@shop.io", "bob@shop.io"}

Names == {"Ann", "Bob"}

Passwords == {"secret123", "other456"}

\* What bcrypt.gensalt can return.
Salts == {"s1", "s2"}

\* The requests that can be in flight at once, each with its own session.
Procs == {1, 2}

AuthenticationError(message) == DomainError("AuthenticationError", message)

\* sqlalchemy.exc.IntegrityError raised by a flush; no DomainError.
IntegrityError(message) == [kind |-> "IntegrityError", message |-> message]

\* sqlalchemy.exc.MultipleResultsFound raised by scalar_one_or_none.
MultipleResultsFound == [kind |-> "MultipleResultsFound", message |-> <<>>]

\* Role(value): the member of the StrEnum with that value.
Role(value) == CHOOSE r \in {"customer", "admin"} : r = value

\* A User whose role defaults to admin.
User_defaults_to_admin(id, email, name, hashed_password) ==
    [id |-> id, email |-> email, name |-> name,
     hashed_password |-> hashed_password, role |-> Role("admin")]

User(id, email, name, hashed_password) ==
    [id |-> id, email |-> email, name |-> name,
     hashed_password |-> hashed_password, role |-> Role("customer")]

AuthResult(access_token, user_id, name) ==
    [access_token |-> access_token, token_type |-> "bearer",
     user_id |-> user_id, name |-> name]

\* PasswordHasher.hash: bcrypt.hashpw(password, salt), which carries its salt.
hash(password, salt) == [salt |-> salt, digest |-> <<salt, password>>]

\* PasswordHasher.verify that hashes `plain` with a salt of its own.
hasher_verify_resalts(plain, hashed) == hash(plain, "s1") = hashed

\* PasswordHasher.verify: bcrypt.checkpw hashes `plain` with the salt of
\* `hashed` and compares.
hasher_verify(plain, hashed) == hash(plain, hashed.salt) = hashed

\* ------------------------------------------------------------------ tokens

SECRET_KEY == "change-me-in-production"

\* Lifetimes of the two classes of token, in ticks of the clock.
ACCESS_TOKEN_EXPIRE == 1

REFRESH_TOKEN_EXPIRE == 2

\* jwt.encode(payload, key, HS256): the payload under a signature made with key.
jwt_encode(payload, key) == [payload |-> payload, key |-> key]

\* TokenGenerator.generate(user_id) at time t
generate(user_id, t) ==
    jwt_encode([sub |-> Some(user_id), exp |-> t + ACCESS_TOKEN_EXPIRE,
                type |-> "access"], SECRET_KEY)

\* TokenGenerator.generate_refresh_token(user_id) at time t
generate_refresh_token(user_id, t) ==
    jwt_encode([sub |-> Some(user_id), exp |-> t + REFRESH_TOKEN_EXPIRE,
                type |-> "refresh"], SECRET_KEY)

\* jwt.decode(token, secret, [HS256]) at time t: the payload, or a PyJWTError
\* for a signature made with another key or an exp that is not after t.
jwt_decode(token, secret, t) ==
    IF token.key # secret
    THEN [err |-> "InvalidSignatureError", payload |-> token.payload]
    ELSE IF token.payload.exp <= t
    THEN [err |-> "ExpiredSignatureError", payload |-> token.payload]
    ELSE [err |-> "", payload |-> token.payload]

\* TokenGenerator.verify without the check of the token's type.
verify_any_type(token, expected_type, t) ==
    LET d == jwt_decode(token, SECRET_KEY, t)
    IN  IF d.err # ""
        THEN [err |-> AuthenticationError(<<"Invalid token">>), user_id |-> None]
        ELSE IF d.payload.sub = None
        THEN [err |-> AuthenticationError(<<"Invalid token">>), user_id |-> None]
        ELSE [err |-> NoError, user_id |-> d.payload.sub]

\* TokenGenerator.verify(token, expected_type) at time t
verify(token, expected_type, t) ==
    LET d == jwt_decode(token, SECRET_KEY, t)
    IN  IF d.err # ""
        THEN [err |-> AuthenticationError(<<"Invalid token">>), user_id |-> None]
        ELSE IF d.payload.sub = None
        THEN [err |-> AuthenticationError(<<"Invalid token">>), user_id |-> None]
        ELSE IF d.payload.type # expected_type
        THEN [err |-> AuthenticationError(<<"Invalid token type">>), user_id |-> None]
        ELSE [err |-> NoError, user_id |-> d.payload.sub]

\* ------------------------------------------------------------- users table

\* SqlAlchemyUserRepository._to_domain(model)
user_to_domain(model) ==
    [id |-> model.id, email |-> model.email, name |-> model.name,
     hashed_password |-> model.hashed_password, role |-> Role(model.role)]

\* SqlAlchemyUserRepository.find_by_email over the rows the session sees.
find_by_email(rows, email) ==
    LET found == {r \in rows : r.email = email}
    IN  IF found = {}
        THEN [err |-> NoError, user |-> None]
        ELSE IF Cardinality(found) > 1
        THEN [err |-> MultipleResultsFound, user |-> None]
        ELSE [err |-> NoError, user |-> Some(user_to_domain(CHOOSE r \in found : TRUE))]

\* SqlAlchemyUserRepository.save on a users table without the unique index
\* of email.
user_save_email_not_unique(rows, user) ==
    LET model == [id |-> user.id, email |-> user.email, name |-> user.name,
                  hashed_password |-> user.hashed_password, role |-> user.role]
    IN  IF \E r \in rows : r.id = model.id
        THEN [err |-> IntegrityError(<<"users_pkey">>), row |-> None]
        ELSE [err |-> NoError, row |-> Some(model)]

\* SqlAlchemyUserRepository.save: session.add(UserModel(...)) and flush, an
\* INSERT that the primary key of users.id and the unique index of
\* users.email (UserModel) refuse.
user_save(rows, user) ==
    LET model == [id |-> user.id, email |-> user.email, name |-> user.name,
                  hashed_password |-> user.hashed_password, role |-> user.role]
    IN  IF \E r \in rows : r.id = model.id
        THEN [err |-> IntegrityError(<<"users_pkey">>), row |-> None]
        ELSE IF \E r \in rows : r.email = model.email
        THEN [err |-> IntegrityError(<<"users.email">>), row |-> None]
        ELSE [err |-> NoError, row |-> Some(model)]

\* ------------------------------------------------------- account use cases

\* RegisterUser.execute without the look-up of the email.
RegisterUser_check_skipped(rows, input) == NoError

\* RegisterUser.execute up to the email check: the error it raises, if any.
RegisterUser_check(rows, input) ==
    LET existing == find_by_email(rows, input.email)
    IN  IF existing.err # NoError THEN existing.err
        ELSE IF existing.user # None
        THEN ValidationError(<<"Email already registered">>)
        ELSE NoError

\* RegisterUser.execute from the email check on: uuid and salt are what
\* uuid4 and gensalt return, t the time the token is made.
RegisterUser_create(rows, input, uuid, salt, t) ==
    LET user == User(uuid, input.email, input.name, hash(input.password, salt))
        saved == user_save(rows, user)
    IN  IF saved.err # NoError
        THEN [err |-> saved.err, row |-> None, result |-> None]
        ELSE [err |-> NoError, row |-> saved.row,
              result |-> Some(AuthResult(generate(user.id, t), user.id, user.name))]

\* LoginUser.execute that tells an unknown email from a wrong password.
LoginUser_execute_reveals(rows, input, t) ==
    LET found == find_by_email(rows, input.email)
    IN  IF found.err # NoError
        THEN [err |-> found.err, result |-> None]
        ELSE IF found.user = None
        THEN [err |-> AuthenticationError(<<"Unknown email">>), result |-> None]
        ELSE IF ~hasher_verify(input.password, found.user[1].hashed_password)
        THEN [err |-> AuthenticationError(<<"Invalid credentials">>), result |-> None]
        ELSE [err |-> NoError,
              result |-> Some(AuthResult(generate(found.user[1].id, t),
                                         found.user[1].id, found.user[1].name))]

\* LoginUser.execute(input) at time t
LoginUser_execute(rows, input, t) ==
    LET found == find_by_email(rows, input.email)
    IN  IF found.err # NoError
        THEN [err |-> found.err, result |-> None]
        ELSE IF found.user = None
        THEN [err |-> AuthenticationError(<<"Invalid credentials">>), result |-> None]
        ELSE IF ~hasher_verify(input.password, found.user[1].hashed_password)
        THEN [err |-> AuthenticationError(<<"Invalid credentials">>), result |-> None]
        ELSE [err |-> NoError,
              result |-> Some(AuthResult(generate(found.user[1].id, t),
                                         found.user[1].id, found.user[1].name))]

\* ------------------------------------------------------- account requests

NoInput == [email |-> "", name |-> "", password |-> ""]

\* A session with no transaction open.
Idle == [pc |-> "idle", input |-> NoInput, known |-> FALSE, row |-> None,
         result |-> None]

\* The rows sessions other than p have flushed and not yet committed.
Pending(p) == {sess[q].row[1] : q \in {x \in Procs \ {p} : sess[x].row # None}}

\* The ids in the table or in a transaction; uuid4 returns none of them.
UsedIds == {r.id : r \in users} \cup {r.id : r \in Pending(0)}

\* The email has a committed row.
Known(email) == \E r \in users : r.email = email

\* The request of session p ends with the error e or the result: get_session
\* commits the row the session flushed, or rolls back on an error.
AuthServed(p, op, input, known, e, row, result) ==
    /\ users' = IF e = NoError /\ row # None THEN users \cup {row[1]} ELSE users
    /\ sess' = [sess EXCEPT ![p] = Idle]
    /\ authRequest' = [op |-> op, email |-> input.email, name |-> input.name,
                       password |-> input.password, known |-> known]
    /\ authResponse' = [err |-> e, result |-> result]
    /\ usersBefore' = users
    /\ registered' = IF op = "Register" /\ e = NoError
                     THEN [registered EXCEPT ![input.email] =
                             Some([user_id |-> result[1].user_id,
                                   name |-> result[1].name,
                                   password |-> input.password,
                                   hashed_password |-> row[1].hashed_password])]
                     ELSE registered
    /\ UNCHANGED <<now, domainVars, ucVars, tokenVars, httpVars, sqlVars, repoVars, seqVars, addVars>>

\* POST /auth/register arrives: RegisterUser.execute runs to the email check.
RegisterCheck(p) ==
    /\ sess[p].pc = "idle"
    /\ \E email \in Emails, name \in Names, password \in Passwords :
         LET input == [email |-> email, name |-> name, password |-> password]
             e == RegisterUser_check(users, input)
         IN  IF e # NoError
             THEN AuthServed(p, "Register", input, Known(email), e, None, None)
             ELSE /\ sess' = [sess EXCEPT ![p] = [Idle EXCEPT !.pc = "checked",
                                                              !.input = input,
                                                              !.known = Known(email)]]
                  /\ UNCHANGED <<users, authRequest, authResponse, usersBefore,
                                 registered, now, domainVars, ucVars, tokenVars, httpVars, sqlVars, repoVars, seqVars, addVars>>

\* RegisterUser.execute goes on to the flush of the new row, which waits
\* while another transaction holds an uncommitted row with the same email.
RegisterSave(p) ==
    /\ sess[p].pc = "checked"
    /\ \A r \in Pending(p) : r.email # sess[p].input.email
    /\ \E uuid \in UserIds \ UsedIds, salt \in Salts :
         LET c == RegisterUser_create(users, sess[p].input, uuid, salt, now)
         IN  IF c.err # NoError
             THEN AuthServed(p, "Register", sess[p].input, sess[p].known, c.err,
                             None, None)
             ELSE /\ sess' = [sess EXCEPT ![p].pc = "flushed", ![p].row = c.row,
                                          ![p].result = c.result]
                  /\ UNCHANGED <<users, authRequest, authResponse, usersBefore,
                                 registered, now, domainVars, ucVars, tokenVars, httpVars, sqlVars, repoVars, seqVars, addVars>>

\* The handler returned: get_session commits.
RegisterCommit(p) ==
    /\ sess[p].pc = "flushed"
    /\ AuthServed(p, "Register", sess[p].input, sess[p].known, NoError,
                  sess[p].row, sess[p].result)

\* POST /auth/login: LoginUser.execute, which writes nothing.
Login(p) ==
    /\ sess[p].pc = "idle"
    /\ \E email \in Emails, password \in Passwords :
         LET input == [email |-> email, name |-> "", password |-> password]
             o == LoginUser_execute(users, input, now)
         IN  AuthServed(p, "Login", input, Known(email), o.err, None, o.result)

NextAuth ==
    \E p \in Procs :
        \/ RegisterCheck(p)
        \/ RegisterSave(p)
        \/ RegisterCommit(p)
        \/ Login(p)

InitAuth ==
    /\ users = {}
    /\ sess = [p \in Procs |-> Idle]
    /\ authRequest = [op |-> "none", email |-> "", name |-> "", password |-> "",
                      known |-> FALSE]
    /\ authResponse = [err |-> NoError, result |-> None]
    /\ usersBefore = {}
    /\ registered = [e \in Emails |-> None]
    /\ now = 0

\* -------------------------------------------------------- token requests

\* The last tick of the clock.
MaxNow == 3

\* A key that is not the server's.
OtherKey == "attacker-key"

NoToken == [via |-> "none", token |-> None, at |-> 0]

\* What a client can send as a token: the two tokens it holds, and each of
\* them with a payload of its choice under a signature of its own making.
Presentable ==
    LET held == {t[1] : t \in {bearer, cookie} \ {None}}
    IN  {Some(t) : t \in held}
        \cup {Some(jwt_encode([t.payload EXCEPT !.type = ty], OtherKey)) :
                t \in held, ty \in {"access", "refresh"}}
        \cup {None}

\* The token request ended: what was presented, what came of it, and the
\* cookie the client holds after it.
TokenServed(via, token, e, user_id, access_token, set_cookie) ==
    /\ presented' = [via |-> via, token |-> token, at |-> now]
    /\ outcome' = [err |-> e, user_id |-> user_id, access_token |-> access_token]
    /\ bearer' = IF access_token # None THEN access_token ELSE bearer
    /\ cookie' = set_cookie
    /\ UNCHANGED <<domainVars, ucVars, authVars, httpVars, sqlVars, repoVars, seqVars, addVars>>

\* get_current_user_id(credentials): HTTPBearer answers a request without
\* credentials itself; a token is verified as an access token.
get_current_user_id(credentials, t) ==
    IF credentials = None
    THEN [err |-> [kind |-> "HTTPException", message |-> <<"Not authenticated">>],
          user_id |-> None]
    ELSE verify(credentials[1], "access", t)

\* POST /auth/refresh with the cookie refresh_token, at time t.
refresh(refresh_token, t) ==
    IF refresh_token = None
    THEN [err |-> AuthenticationError(<<"No refresh token provided">>),
          user_id |-> None, access_token |-> None, refresh_token |-> None]
    ELSE LET v == verify(refresh_token[1], "refresh", t)
         IN  IF v.err # NoError
             THEN [err |-> v.err, user_id |-> None, access_token |-> None,
                   refresh_token |-> None]
             ELSE [err |-> NoError, user_id |-> v.user_id,
                   access_token |-> Some(generate(v.user_id[1], t)),
                   refresh_token |-> Some(generate_refresh_token(v.user_id[1], t))]

\* Time passes.
Tick ==
    /\ now < MaxNow
    /\ now' = now + 1
    /\ UNCHANGED <<domainVars, ucVars, tokenVars,
                   users, sess, authRequest, authResponse, usersBefore, registered, httpVars, sqlVars, repoVars, seqVars, addVars>>

\* The end of register and login once the use case returned the AuthResult
\* of user u: the access token in the body, a refresh token in the cookie.
SignedIn ==
    \E u \in UserIds :
        TokenServed("login", None, NoError, Some(u), Some(generate(u, now)),
                    Some(generate_refresh_token(u, now)))

\* A route that depends on CurrentUserId is called.
Authenticate ==
    \E token \in Presentable :
        LET r == get_current_user_id(token, now)
        IN  TokenServed("get_current_user_id", token, r.err, r.user_id, None, cookie)

\* POST /auth/refresh
Refresh ==
    \E token \in Presentable :
        LET r == refresh(token, now)
        IN  TokenServed("refresh", token, r.err, r.user_id, r.access_token,
                        IF r.refresh_token # None THEN r.refresh_token ELSE cookie)

\* POST /auth/logout deletes the cookie.
Logout ==
    TokenServed("logout", None, NoError, None, None, None)

NextToken ==
    \/ Tick
    \/ SignedIn
    \/ Authenticate
    \/ Refresh
    \/ Logout

InitToken ==
    /\ bearer = None
    /\ cookie = None
    /\ presented = NoToken
    /\ outcome = [err |-> NoError, user_id |-> None, access_token |-> None]

\* ------------------------------------------------------ exception handlers

AuthorizationError(message) == DomainError("AuthorizationError", message)

\* The exception classes that reach the transport boundary: the domain
\* errors, and two that are no DomainError.
ExceptionClasses ==
    {"DomainError", "NotFoundError", "AuthenticationError", "AuthorizationError",
     "ValidationError", "IntegrityError", "TypeError"}

\* The messages the code raises domain errors with, and the defaults of the
\* classes.
Messages ==
    {<<"Invalid token">>, <<"Invalid token type">>, <<"No refresh token provided">>,
     <<"Admin access required">>, <<"Invalid credentials">>,
     <<"Email already registered">>, <<"Cart not found">>,
     <<"Quantity cannot be negative">>, <<"Price cannot be negative">>,
     <<"Invalid UUID:", "x">>,
     <<"Domain error">>, <<"Resource not found">>, <<"Authentication failed">>,
     <<"Not authorized">>, <<"Validation error">>}
    \cup {<<"Product", p, "not found">> : p \in ProductIds}
    \cup {<<"Item with product_id", p, "not found in cart">> : p \in ProductIds}

\* The class a class is derived from.
BaseOf(cls) ==
    CASE cls \in {"NotFoundError", "AuthenticationError", "AuthorizationError",
                  "ValidationError"} -> "DomainError"
      [] cls \in {"DomainError", "IntegrityError", "TypeError"} -> "Exception"
      [] cls = "Exception" -> "BaseException"
      [] OTHER -> "object"

RECURSIVE mro(_)
\* type(exc).__mro__
mro(cls) == IF cls = "object" THEN <<cls>> ELSE <<cls>> \o mro(BaseOf(cls))

\* The calls of app.add_exception_handler that register_exception_handlers
\* makes, in their order.
Registrations ==
    << [cls |-> "NotFoundError", handler |-> "not_found_handler"],
       [cls |-> "AuthenticationError", handler |-> "authentication_error_handler"],
       [cls |-> "AuthorizationError", handler |-> "authorization_error_handler"],
       [cls |-> "ValidationError", handler |-> "validation_error_handler"],
       [cls |-> "DomainError", handler |-> "domain_error_handler"] >>

\* app.exception_handlers after them: a dict from class to handler, in which
\* a later registration of a class replaces an earlier one.
exception_handlers ==
    [cls \in {Registrations[i].cls : i \in 1..Len(Registrations)} |->
        Registrations[CHOOSE i \in 1..Len(Registrations) :
                        /\ Registrations[i].cls = cls
                        /\ \A j \in (i + 1)..Len(Registrations) :
                             Registrations[j].cls # cls].handler]

\* A lookup that asks the classes of the exception from the base down.
lookup_handler_base_first(cls) ==
    LET m == mro(cls)
        hit == {i \in 1..Len(m) : m[i] \in DOMAIN exception_handlers}
    IN  IF hit = {} THEN None
        ELSE Some(exception_handlers[m[CHOOSE i \in hit : \A j \in hit : j <= i]])

\* The handler the application picks for an exception of class cls: that of
\* the first class of the exception's __mro__ that has one.
lookup_handler(cls) ==
    LET m == mro(cls)
        hit == {i \in 1..Len(m) : m[i] \in DOMAIN exception_handlers}
    IN  IF hit = {} THEN None
        ELSE Some(exception_handlers[m[Min(hit)]])

\* The five handlers of shared/exceptions.py.
run_handler(handler, exc) ==
    [status_code |-> CASE handler = "domain_error_handler" -> 400
                       [] handler = "not_found_handler" -> 404
                       [] handler = "authentication_error_handler" -> 401
                       [] handler = "authorization_error_handler" -> 403
                       [] handler = "validation_error_handler" -> 422,
     detail |-> exc.message]

\* The response to an exception that left a route or a dependency; one with
\* no handler is the server's error.
exception_response(exc) ==
    LET h == lookup_handler(exc.kind)
    IN  IF h = None
        THEN [status_code |-> 500, detail |-> <<"Internal Server Error">>]
        ELSE run_handler(h[1], exc)

\* A request ends with an exception.
Raise ==
    \E cls \in ExceptionClasses, message \in Messages :
        /\ raised' = [kind |-> cls, message |-> message]
        /\ answered' = exception_response([kind |-> cls, message |-> message])
        /\ UNCHANGED <<domainVars, ucVars, authVars, tokenVars, sqlVars, repoVars, seqVars, addVars>>

NextHttp == Raise

InitHttp ==
    /\ raised = NoError
    /\ answered = [status_code |-> 200, detail |-> <<>>]

\* ------------------------------------------------------------ carts table

\* The quantities cart requests carry.
SqlQuantities == {-1, 2, 5}

TypeError(message) == [kind |-> "TypeError", message |-> message]

\* SqlAlchemyCartRepository._to_domain(model): for an item whose products row
\* is loaded, Product(...) is called without parent_category, which the
\* dataclass requires, and raises TypeError.
cart_to_domain(model) ==
    IF \E i \in 1..Len(model.items) :
           product_find_by_id(model.items[i].product_id) # None
    THEN [err |-> TypeError(<<"Product.__init__() missing 1 required positional argument: 'parent_category'">>),
          cart |-> None]
    ELSE [err |-> NoError,
          cart |-> Some(Cart(model.id, model.user_id,
                             [i \in 1..Len(model.items) |->
                                 CartItem(model.items[i].product_id, None,
                                          Quantity(model.items[i].quantity).value)]))]

\* select(CartModel).where(CartModel.user_id == user_id), scalar_one_or_none,
\* over the rows the session sees.
cart_select(rows, user_id) ==
    LET found == {r \in rows : r.user_id = user_id}
    IN  IF found = {}
        THEN [err |-> NoError, model |-> None]
        ELSE IF Cardinality(found) > 1
        THEN [err |-> MultipleResultsFound, model |-> None]
        ELSE [err |-> NoError, model |-> Some(CHOOSE r \in found : TRUE)]

\* SqlAlchemyCartRepository.find_by_user_id
sql_find_by_user_id(rows, user_id) ==
    LET s == cart_select(rows, user_id)
    IN  IF s.err # NoError THEN [err |-> s.err, cart |-> None]
        ELSE IF s.model = None THEN [err |-> NoError, cart |-> None]
        ELSE cart_to_domain(s.model[1])

\* The CartItemModel rows save makes of the items of a cart.
ItemRows(cart) ==
    [i \in 1..Len(cart.items) |->
        [product_id |-> cart.items[i].product_id, quantity |-> cart.items[i].quantity]]

\* INSERT INTO carts on a table without the unique index of user_id.
cart_insert_user_not_unique(committed, pending, row) ==
    IF \E r \in pending : r.id = row.id THEN "wait"
    ELSE IF \E r \in committed : r.id = row.id THEN "IntegrityError"
    ELSE "ok"

\* INSERT INTO carts at the flush: CartModel has the primary key id and a
\* unique user_id. The insert waits while a transaction that has not ended
\* holds a row in conflict, and fails on a committed one.
cart_insert(committed, pending, row) ==
    IF \E r \in pending : r.user_id = row.user_id \/ r.id = row.id THEN "wait"
    ELSE IF \E r \in committed : r.user_id = row.user_id \/ r.id = row.id
    THEN "IntegrityError"
    ELSE "ok"

\* SqlAlchemyCartRepository.save from its first flush on; `existing` is what
\* its select returned, `pending` the rows other transactions have flushed.
sql_save_flush(committed, pending, existing, cart) ==
    IF existing # None
    THEN LET row == [existing[1] EXCEPT !.items = ItemRows(cart)]
         IN  IF \E r \in pending : r.id = row.id
             THEN [status |-> "wait", row |-> None, err |-> NoError]
             ELSE [status |-> "done", row |-> Some(row), err |-> cart_to_domain(row).err]
    ELSE LET row == [id |-> cart.id, user_id |-> cart.user_id, items |-> ItemRows(cart)]
             ins == cart_insert(committed, pending, row)
         IN  IF ins = "wait"
             THEN [status |-> "wait", row |-> None, err |-> NoError]
             ELSE IF ins = "IntegrityError"
             THEN [status |-> "done", row |-> None,
                   err |-> IntegrityError(<<"carts.user_id">>)]
             ELSE [status |-> "done", row |-> Some(row), err |-> cart_to_domain(row).err]

\* ------------------------------------------- cart use cases up to their save

\* GetCart.execute(user_id) on the rows the session sees.
sql_GetCart_execute(rows, user_id, uuid) ==
    LET f == sql_find_by_user_id(rows, user_id)
    IN  IF f.err # NoError THEN [err |-> f.err, cart |-> None]
        ELSE IF f.cart = None
        THEN [err |-> NoError, cart |-> Some(Cart(uuid, user_id, <<>>))]
        ELSE [err |-> NoError, cart |-> f.cart]

\* AddToCart.execute up to the call of save: the error raised or the cart to
\* save.
AddToCart_until_save(rows, input, uuid) ==
    LET product == product_find_by_id(input.product_id)
        f == sql_find_by_user_id(rows, input.user_id)
        cart == IF f.cart = None THEN Cart(uuid, input.user_id, <<>>) ELSE f.cart[1]
        q == Quantity(input.quantity)
        r == add_item(cart.items, CartItem(input.product_id, product, q.value))
    IN  IF product = None
        THEN [err |-> NotFoundError(<<"Product", input.product_id, "not found">>),
              cart |-> None]
        ELSE IF f.err # NoError THEN [err |-> f.err, cart |-> None]
        ELSE IF q.err # NoError THEN [err |-> q.err, cart |-> None]
        ELSE IF r.err # NoError THEN [err |-> r.err, cart |-> None]
        ELSE [err |-> NoError, cart |-> Some([cart EXCEPT !.items = r.items])]

\* RemoveFromCart.execute up to the call of save.
RemoveFromCart_until_save(rows, input) ==
    LET f == sql_find_by_user_id(rows, input.user_id)
    IN  IF f.err # NoError THEN [err |-> f.err, cart |-> None]
        ELSE IF f.cart = None
        THEN [err |-> NotFoundError(<<"Cart not found">>), cart |-> None]
        ELSE LET r == remove_item(f.cart[1].items, input.product_id)
             IN  IF r.err # NoError THEN [err |-> r.err, cart |-> None]
                 ELSE [err |-> NoError, cart |-> Some([f.cart[1] EXCEPT !.items = r.items])]

\* UpdateCartItem.execute up to the call of save.
UpdateCartItem_until_save(rows, input) ==
    LET f == sql_find_by_user_id(rows, input.user_id)
        q == Quantity(input.quantity)
    IN  IF f.err # NoError THEN [err |-> f.err, cart |-> None]
        ELSE IF f.cart = None
        THEN [err |-> NotFoundError(<<"Cart not found">>), cart |-> None]
        ELSE IF q.err # NoError THEN [err |-> q.err, cart |-> None]
        ELSE LET r == update_item_quantity(f.cart[1].items, input.product_id, q.value)
             IN  IF r.err # NoError THEN [err |-> r.err, cart |-> None]
                 ELSE [err |-> NoError, cart |-> Some([f.cart[1] EXCEPT !.items = r.items])]

until_save(rows, input, uuid) ==
    CASE input.op = "AddToCart" -> AddToCart_until_save(rows, input, uuid)
      [] input.op = "RemoveFromCart" -> RemoveFromCart_until_save(rows, input)
      [] input.op = "UpdateCartItem" -> UpdateCartItem_until_save(rows, input)

\* ----------------------------------------------------------- cart requests

NoCartInput == [op |-> "none", user_id |-> "", product_id |-> "", quantity |-> 0]

\* A session with no cart request in it.
SqlIdle == [pc |-> "idle", input |-> NoCartInput, seen |-> None, cart |-> None,
            existing |-> None, row |-> None, err |-> NoError, raced |-> FALSE]

\* The cart rows sessions other than p have flushed and not yet committed.
SqlPending(p) == {sql[q].row[1] : q \in {x \in Procs \ {p} : sql[x].row # None}}

\* The rows the session of p sees: the committed ones and its own.
SqlVisible(p) ==
    IF sql[p].row = None THEN cartRows
    ELSE {r \in cartRows : r.id # sql[p].row[1].id} \cup {sql[p].row[1]}

\* The cart ids in the table or in a request; uuid4 returns none of them.
SqlUsedIds ==
    {r.id : r \in cartRows}
    \cup {sql[q].cart[1].id : q \in {x \in Procs : sql[x].cart # None}}

\* The requests of test_cart_full_lifecycle, with a GET after each change,
\* and the items each must answer with.
Lifecycle ==
    << [op |-> "GetCart", product_id |-> "", quantity |-> 0, items |-> <<>>],
       [op |-> "AddToCart", product_id |-> "p1", quantity |-> 2,
        items |-> <<[product_id |-> "p1", quantity |-> 2]>>],
       [op |-> "GetCart", product_id |-> "", quantity |-> 0,
        items |-> <<[product_id |-> "p1", quantity |-> 2]>>],
       [op |-> "UpdateCartItem", product_id |-> "p1", quantity |-> 5,
        items |-> <<[product_id |-> "p1", quantity |-> 5]>>],
       [op |-> "GetCart", product_id |-> "", quantity |-> 0,
        items |-> <<[product_id |-> "p1", quantity |-> 5]>>],
       [op |-> "RemoveFromCart", product_id |-> "p1", quantity |-> 0, items |-> <<>>],
       [op |-> "GetCart", product_id |-> "", quantity |-> 0, items |-> <<>>] >>

\* The user of the lifecycle.
LifecycleUser == "u1"

\* The stage after a request of p ended: one further when it was the next
\* request of the lifecycle and answered as that must, -1 when it answered
\* otherwise, -2 once the user made any other request.
NextStage(p, input, e, its) ==
    IF stage < 0 \/ input.user_id # LifecycleUser THEN stage
    ELSE IF /\ stage < Len(Lifecycle)
            /\ \A q \in Procs \ {p} : sql[q].input.user_id # LifecycleUser
            /\ input.op = Lifecycle[stage + 1].op
            /\ input.product_id = Lifecycle[stage + 1].product_id
            /\ input.quantity = Lifecycle[stage + 1].quantity
    THEN IF e = NoError /\ its = Lifecycle[stage + 1].items THEN stage + 1 ELSE -1
    ELSE -2

\* The items of the user's committed cart, if the user has one.
StoredItems(rows, user_id) ==
    IF \E r \in rows : r.user_id = user_id
    THEN Some((CHOOSE r \in rows : r.user_id = user_id).items)
    ELSE None

\* get_session that commits what the session flushed also when the request
\* raised.
SqlServed_commits_always(p, input, raced, e, cart, row) ==
    LET its == IF cart = None THEN <<>> ELSE ItemRows(cart[1])
    IN  /\ cartRows' = IF row # None
                       THEN {r \in cartRows : r.id # row[1].id} \cup {row[1]}
                       ELSE cartRows
        /\ sql' = [sql EXCEPT ![p] = SqlIdle]
        /\ raceDone' = IF raced
                       THEN Append(raceDone,
                                   [user_id |-> input.user_id,
                                    product_id |-> input.product_id,
                                    err |-> e, items |-> its,
                                    stored |-> StoredItems(cartRows', input.user_id)])
                       ELSE raceDone
        /\ stage' = NextStage(p, input, e, its)
        /\ UNCHANGED <<domainVars, ucVars, authVars, tokenVars, httpVars, repoVars, seqVars, addVars>>

\* The request of session p ends with the error e or the cart: get_session
\* commits what the session flushed, or rolls it back on an error.
SqlServed(p, input, raced, e, cart, row) ==
    LET its == IF cart = None THEN <<>> ELSE ItemRows(cart[1])
    IN  /\ cartRows' = IF e = NoError /\ row # None
                       THEN {r \in cartRows : r.id # row[1].id} \cup {row[1]}
                       ELSE cartRows
        /\ sql' = [sql EXCEPT ![p] = SqlIdle]
        /\ raceDone' = IF raced
                       THEN Append(raceDone,
                                   [user_id |-> input.user_id,
                                    product_id |-> input.product_id,
                                    err |-> e, items |-> its,
                                    stored |-> StoredItems(cartRows', input.user_id)])
                       ELSE raceDone
        /\ stage' = NextStage(p, input, e, its)
        /\ UNCHANGED <<domainVars, ucVars, authVars, tokenVars, httpVars, repoVars, seqVars, addVars>>

\* GET /cart: GetCart.execute, which writes nothing.
SqlGetCart(p) ==
    /\ sql[p].pc = "idle"
    /\ \E u \in UserIds, uuid \in Uuids \ SqlUsedIds :
         LET o == sql_GetCart_execute(SqlVisible(p), u, uuid)
         IN  SqlServed(p, [op |-> "GetCart", user_id |-> u, product_id |-> "",
                           quantity |-> 0], FALSE, o.err, o.cart, None)

\* The other sessions whose AddToCart for the user read what p reads now and
\* have not saved yet.
Racing(p, input, seen) ==
    {q \in Procs \ {p} : /\ input.op = "AddToCart"
                         /\ sql[q].input.op = "AddToCart"
                         /\ sql[q].input.user_id = input.user_id
                         /\ sql[q].pc \in {"select", "flush"}
                         /\ sql[q].seen = seen}

\* POST, PATCH or DELETE on /cart/items arrives: the use case runs up to its
\* call of save.
SqlBegin(p) ==
    /\ sql[p].pc = "idle"
    /\ \E op \in {"AddToCart", "RemoveFromCart", "UpdateCartItem"},
          u \in UserIds, pid \in ProductIds, q \in SqlQuantities :
         \E uuid \in Uuids \ SqlUsedIds :
           LET input == [op |-> op, user_id |-> u, product_id |-> pid,
                         quantity |-> IF op = "RemoveFromCart" THEN 0 ELSE q]
               o == until_save(SqlVisible(p), input, uuid)
               seen == cart_select(SqlVisible(p), u).model
               racing == Racing(p, input, seen)
           IN  IF o.err # NoError
               THEN SqlServed(p, input, FALSE, o.err, None, None)
               ELSE /\ sql' = [x \in Procs |->
                                 IF x = p
                                 THEN [SqlIdle EXCEPT !.pc = "select", !.input = input,
                                                      !.seen = seen, !.cart = o.cart,
                                                      !.raced = racing # {}]
                                 ELSE IF x \in racing
                                 THEN [sql[x] EXCEPT !.raced = TRUE]
                                 ELSE sql[x]]
                    /\ raceDone' = IF racing # {} THEN <<>> ELSE raceDone
                    /\ UNCHANGED <<cartRows, stage,
                                   domainVars, ucVars, authVars, tokenVars, httpVars, repoVars, seqVars, addVars>>

\* SqlAlchemyCartRepository.save: the select of the user's cart.
SqlSaveSelect(p) ==
    /\ sql[p].pc = "select"
    /\ LET s == cart_select(SqlVisible(p), sql[p].input.user_id)
       IN  IF s.err # NoError
           THEN SqlServed(p, sql[p].input, sql[p].raced, s.err, None, None)
           ELSE /\ sql' = [sql EXCEPT ![p].pc = "flush", ![p].existing = s.model]
                /\ UNCHANGED <<cartRows, raceDone, stage,
                               domainVars, ucVars, authVars, tokenVars, httpVars, repoVars, seqVars, addVars>>

\* SqlAlchemyCartRepository.save: the writes, their flush, and the cart it
\* builds to return.
SqlSaveFlush(p) ==
    /\ sql[p].pc = "flush"
    /\ LET f == sql_save_flush(cartRows, SqlPending(p), sql[p].existing,
                               sql[p].cart[1])
       IN  /\ f.status = "done"
           /\ sql' = [sql EXCEPT ![p].pc = "end", ![p].row = f.row, ![p].err = f.err]
           /\ UNCHANGED <<cartRows, raceDone, stage,
                          domainVars, ucVars, authVars, tokenVars, httpVars, repoVars, seqVars, addVars>>

\* The use case returned its cart, or the exception of save left the handler:
\* get_session commits or rolls back.
SqlEnd(p) ==
    /\ sql[p].pc = "end"
    /\ SqlServed(p, sql[p].input, sql[p].raced, sql[p].err,
                 IF sql[p].err = NoError THEN sql[p].cart ELSE None, sql[p].row)

NextSql ==
    \E p \in Procs :
        \/ SqlGetCart(p)
        \/ SqlBegin(p)
        \/ SqlSaveSelect(p)
        \/ SqlSaveFlush(p)
        \/ SqlEnd(p)

InitSql ==
    /\ cartRows = {}
    /\ sql = [p \in Procs |-> SqlIdle]
    /\ raceDone = <<>>
    /\ stage = 0

\* ------------------------------------------------- user repository calls

\* The users save is called with: either id, either email, either role.
SavedUsers ==
    {[id |-> id, email |-> email, name |-> name,
      hashed_password |-> hash("secret123", "s1"), role |-> Role(role)] :
        id \in UserIds, email \in Emails, name \in Names,
        role \in {"customer", "admin"}}

\* One request calls save(user) in its session and ends: get_session commits
\* the row the flush wrote, or rolls back on the exception of the flush.
UserSave ==
    \E user \in SavedUsers :
        LET s == user_save(userRows, user)
        IN  /\ userRows' = IF s.err = NoError
                           THEN {r \in userRows : r.id # user.id} \cup {s.row[1]}
                           ELSE userRows
            /\ userSave' = [user |-> Some(user), err |-> s.err, rows |-> userRows]
            /\ UNCHANGED <<domainVars, ucVars, authVars, tokenVars, httpVars, sqlVars, seqVars, addVars>>

NextUserRepo == UserSave

InitUserRepo ==
    /\ userRows = {}
    /\ userSave = [user |-> None, err |-> NoError, rows |-> {}]

\* ------------------------------------------------------------ admin guard

\* SqlAlchemyUserRepository.find_by_id over the rows the session sees.
user_find_by_id(rows, user_id) ==
    LET found == {r \in rows : r.id = user_id}
    IN  IF found = {}
        THEN [err |-> NoError, user |-> None]
        ELSE IF Cardinality(found) > 1
        THEN [err |-> MultipleResultsFound, user |-> None]
        ELSE [err |-> NoError, user |-> Some(user_to_domain(CHOOSE r \in found : TRUE))]

\* require_admin(user_id, user_repo): the error it raises, or the user id it
\* returns.
require_admin(rows, user_id) ==
    LET found == user_find_by_id(rows, user_id)
    IN  IF found.err # NoError
        THEN [err |-> found.err, user_id |-> None]
        ELSE IF found.user = None \/ found.user[1].role # Role("admin")
        THEN [err |-> AuthorizationError(<<"Admin access required">>), user_id |-> None]
        ELSE [err |-> NoError, user_id |-> Some(user_id)]

\* ------------------------------------------------------------ cart response

\* cart_to_response with each subtotal the price alone.
cart_to_response_unit_subtotals(cart) ==
    [id |-> cart.id,
     items |-> [i \in 1..Len(cart.items) |->
                  LET item == cart.items[i]
                      price == IF item.product # None THEN item.product[1].price ELSE 0
                  IN  [product_id |-> item.product_id,
                       name |-> IF item.product # None THEN item.product[1].name ELSE "",
                       price |-> price,
                       quantity |-> item.quantity,
                       subtotal |-> price]],
     total |-> total(cart.items)]

\* cart_to_response(cart): the CartResponse with one CartItemResponse for
\* each item (image_url left out), price 0 and name "" where the product is
\* not resolved.
cart_to_response(cart) ==
    [id |-> cart.id,
     items |-> [i \in 1..Len(cart.items) |->
                  LET item == cart.items[i]
                      price == IF item.product # None THEN item.product[1].price ELSE 0
                  IN  [product_id |-> item.product_id,
                       name |-> IF item.product # None THEN item.product[1].name ELSE "",
                       price |-> price,
                       quantity |-> item.quantity,
                       subtotal |-> price * item.quantity]],
     total |-> total(cart.items)]

\* ------------------------------------------------------------- behaviours

InitDomain ==
    /\ items = <<>>
    /\ call = NoCall
    /\ err = NoError
    /\ before = <<>>
    /\ onlyAdds = TRUE
    /\ added = [p \in ProductIds |-> 0]
    /\ addedIds = {}
    /\ positive = TRUE

InitUC ==
    /\ carts = [u \in UserIds |-> None]
    /\ request = NoRequest
    /\ response = [err |-> NoError, cart |-> None]
    /\ saves = 0
    /\ cartsBefore = [u \in UserIds |-> None]
    /\ addSeq = [u \in UserIds |-> NoAdds]

Init ==
    /\ InitDomain /\ InitUC /\ InitAuth /\ InitToken /\ InitHttp /\ InitSql
    /\ InitUserRepo

Next ==
    \/ AddItem
    \/ RemoveItem
    \/ UpdateItemQuantity

Spec == Init /\ [][Next]_vars

SpecUC == Init /\ [][NextUC]_vars

SpecAuth == Init /\ [][NextAuth]_vars

SpecToken == Init /\ [][NextToken]_vars

SpecHttp == Init /\ [][NextHttp]_vars

SpecSql == Init /\ [][NextSql]_vars

SpecUserRepo == Init /\ [][NextUserRepo]_vars

\* --------------------------------------------------------------- claims

\* The item of `its` at index i with another quantity.
WithQuantity(its, i, q) == [its EXCEPT ![i].quantity = q]

\* `its` without its k-th element, the others in their order.
Without(its, k) == SubSeq(its, 1, k - 1) \o SubSeq(its, k + 1, Len(its))

ItemNotFound(product_id) ==
    NotFoundError(<<"Item with product_id", product_id, "not found in cart">>)

\* C1: after any sequence of add_item, remove_item and update_item_quantity
\* calls, successful or failing, on a cart that starts empty, no two items of
\* the cart have the same product_id.
C1_UniqueProductIds ==
    \A i, j \in 1..Len(items) : i # j => items[i].product_id # items[j].product_id

\* A full cart in which the last add_item met an item with its product_id.
C1_Witness ==
    /\ call.op = "add_item"
    /\ Matching(before, call.product_id) # {}
    /\ Len(items) = 3

\* C2: for any sequence of add_item calls on an initially empty cart, the cart
\* holds exactly one item per distinct product_id added, whose quantity is the
\* sum of the quantities added for that product_id; add_item never rejects.
C2_AddMerges ==
    /\ call.op = "add_item" => err = NoError
    /\ onlyAdds =>
         /\ Len(items) = Cardinality(addedIds)
         /\ \A pid \in ProductIds :
              Cardinality(Matching(items, pid)) = IF pid \in addedIds THEN 1 ELSE 0
         /\ \A i \in 1..Len(items) : items[i].quantity = added[items[i].product_id]

\* Three distinct ids were added, and the last add merged q2 > 0 into q1 > 0.
C2_Witness ==
    /\ onlyAdds
    /\ Len(items) = 3
    /\ call.op = "add_item"
    /\ call.quantity > 0
    /\ \E i \in Matching(before, call.product_id) :
         /\ before[i].quantity > 0
         /\ items[i].quantity = before[i].quantity + call.quantity

\* C3: remove_item(pid) on a cart with no item pid (the empty cart included)
\* fails with NotFoundError and leaves the items, their quantities and their
\* order as they were.
C3_RemoveAbsentFails ==
    (call.op = "remove_item" /\ Matching(before, call.product_id) = {}) =>
        /\ err.kind = "NotFoundError"
        /\ items = before

\* remove_item of an absent id on a cart that holds two other items.
C3_Witness ==
    /\ call.op = "remove_item"
    /\ Matching(before, call.product_id) = {}
    /\ Len(before) = 2
    /\ err.kind = "NotFoundError"

\* C4: update_item_quantity(pid, q) with q > 0 sets the quantity of the item
\* pid to exactly q and leaves the number of items and every other item
\* unchanged; without an item pid it fails with NotFoundError, cart unchanged.
C4_UpdateReplaces ==
    (call.op = "update_item_quantity" /\ call.quantity > 0) =>
        IF Matching(before, call.product_id) # {}
        THEN /\ err = NoError
             /\ Len(items) = Len(before)
             /\ \A i \in 1..Len(before) :
                  items[i] = IF before[i].product_id = call.product_id
                             THEN WithQuantity(before, i, call.quantity)[i]
                             ELSE before[i]
        ELSE /\ err.kind = "NotFoundError"
             /\ items = before

\* An update to q > 0 of an item that held another positive quantity, among others.
C4_Witness ==
    /\ call.op = "update_item_quantity"
    /\ call.quantity > 0
    /\ Len(before) = 3
    /\ \E i \in Matching(before, call.product_id) :
         /\ before[i].quantity > 0
         /\ before[i].quantity # call.quantity
         /\ items[i].quantity = call.quantity

\* C5: update_item_quantity(pid, 0) removes the item pid and keeps all other
\* items; without an item pid it fails with the NotFoundError of remove_item.
C5_UpdateZeroRemoves ==
    (call.op = "update_item_quantity" /\ call.quantity = 0) =>
        IF Matching(before, call.product_id) # {}
        THEN /\ err = NoError
             /\ Matching(items, call.product_id) = {}
             /\ \E k \in Matching(before, call.product_id) : items = Without(before, k)
        ELSE /\ err = ItemNotFound(call.product_id)
             /\ items = before

\* An update to 0 took an item with a positive quantity out of a full cart.
C5_Witness ==
    /\ call.op = "update_item_quantity"
    /\ call.quantity = 0
    /\ Len(before) = 3
    /\ Len(items) = 2
    /\ \E k \in Matching(before, call.product_id) : before[k].quantity > 0

\* C6: an update to a negative quantity fails with ValidationError whether or
\* not the cart holds the product, and leaves the cart unchanged.
C6_NegativeRejected ==
    (call.op = "update_item_quantity" /\ call.quantity < 0) =>
        /\ err.kind = "ValidationError"
        /\ items = before

\* An update to -1 of an item the cart holds, among others.
C6_Witness ==
    /\ call.op = "update_item_quantity"
    /\ call.quantity = -1
    /\ Matching(before, call.product_id) # {}
    /\ Len(before) = 2
    /\ err.kind = "ValidationError"

RECURSIVE IndexSum(_, _)
\* The sum over the indices I of price * quantity of the items of `its`.
IndexSum(its, I) ==
    IF I = {}
    THEN 0
    ELSE LET i == CHOOSE x \in I : TRUE
         IN  its[i].product[1].price * its[i].quantity + IndexSum(its, I \ {i})

\* The cart of the specification's example: (10.00 x 2) and (5.50 x 3).
ExampleCart ==
    <<CartItem("p1", Some(Product("p1")), 2), CartItem("p2", Some(Product("p2")), 3)>>

\* C7: Cart.total is the sum, over the items whose product is resolved, of
\* price * quantity; unresolved items contribute zero; the empty cart totals 0
\* and the example cart 36.50; it follows every add, remove and update.
C7_TotalIsSum ==
    /\ total(items) = IndexSum(items, {i \in 1..Len(items) : items[i].product # None})
    /\ items = <<>> => total(items) = 0
    /\ items = ExampleCart => total(items) = 3650
    /\ (\A i \in 1..Len(items) : items[i].product = None) => total(items) = 0

\* The example's two items around an unresolved item with a positive quantity.
C7_Witness ==
    /\ Len(items) = 3
    /\ items[1] = ExampleCart[1]
    /\ items[2].product = None
    /\ items[2].quantity > 0
    /\ items[3] = ExampleCart[2]
    /\ total(items) = 3650

\* C8: remove_item(pid) on a cart that holds pid succeeds; afterwards no item
\* has product_id pid, and every other item is still there with its quantity,
\* in the same relative order.
C8_RemoveKeepsOthers ==
    (call.op = "remove_item" /\ Matching(before, call.product_id) # {}) =>
        /\ err = NoError
        /\ Matching(items, call.product_id) = {}
        /\ \E k \in Matching(before, call.product_id) : items = Without(before, k)

\* remove_item took the middle item out of a full cart.
C8_Witness ==
    /\ call.op = "remove_item"
    /\ Len(before) = 3
    /\ before[2].product_id = call.product_id
    /\ items = <<before[1], before[3]>>

\* The other user.
Other(user_id) == CHOOSE u \in UserIds : u # user_id

\* C9: AddToCart with a product id the product repository does not know fails
\* with NotFoundError and persists nothing: save is not called and the stored
\* carts, and which users have one, are as before the call.
C9_UnknownProductNotPersisted ==
    (request.op = "AddToCart" /\ request.product_id \notin KnownProductIds) =>
        /\ response.err.kind = "NotFoundError"
        /\ response.cart = None
        /\ saves = 0
        /\ carts = cartsBefore

\* AddToCart of the unknown product by a user without a cart, while the other
\* user has a cart with an item.
C9_Witness ==
    /\ request.op = "AddToCart"
    /\ request.product_id \notin KnownProductIds
    /\ request.quantity > 0
    /\ cartsBefore[request.user_id] = None
    /\ cartsBefore[Other(request.user_id)] # None
    /\ Len(cartsBefore[Other(request.user_id)][1].items) > 0
    /\ response.err.kind = "NotFoundError"

\* C10: a missing cart is never an error for GetCart or AddToCart: for a user
\* without a stored cart GetCart returns an empty cart owned by that user, and
\* AddToCart of an existing product with a quantity a Quantity accepts returns
\* and persists a cart owned by that user holding exactly the added item with
\* the requested quantity (a negative quantity is a ValidationError, never a
\* NotFoundError).
C10_MissingCartIsNoError ==
    /\ (request.op = "GetCart" /\ cartsBefore[request.user_id] = None) =>
         /\ response.err = NoError
         /\ response.cart # None
         /\ response.cart[1].user_id = request.user_id
         /\ response.cart[1].items = <<>>
    /\ (/\ request.op = "AddToCart"
        /\ cartsBefore[request.user_id] = None
        /\ request.product_id \in KnownProductIds) =>
         IF request.quantity >= 0
         THEN /\ response.err = NoError
              /\ response.cart # None
              /\ carts[request.user_id] = response.cart
              /\ saves = 1
              /\ response.cart[1].user_id = request.user_id
              /\ Len(response.cart[1].items) = 1
              /\ response.cart[1].items[1].product_id = request.product_id
              /\ response.cart[1].items[1].quantity = request.quantity
              /\ carts[Other(request.user_id)] = cartsBefore[Other(request.user_id)]
         ELSE /\ response.err.kind = "ValidationError"
              /\ carts = cartsBefore

\* The first AddToCart of a user, of an existing product with quantity 2, was
\* served and stored while the other user already had a cart.
C10_Witness ==
    /\ request.op = "AddToCart"
    /\ cartsBefore[request.user_id] = None
    /\ cartsBefore[Other(request.user_id)] # None
    /\ request.product_id \in KnownProductIds
    /\ request.quantity = 2
    /\ carts[request.user_id] # None
    /\ carts[request.user_id][1].items[1].quantity = 2

CartNotFound == NotFoundError(<<"Cart not found">>)

\* C11: RemoveFromCart and UpdateCartItem for a user who has no stored cart
\* fail with NotFoundError("Cart not found"), return and create no cart and
\* leave the cart store as it was; when the user has a cart, no failure of the
\* two carries that error, so the two failures can be told apart.
C11_MissingCartFails ==
    request.op \in {"RemoveFromCart", "UpdateCartItem"} =>
        IF cartsBefore[request.user_id] = None
        THEN /\ response.err = CartNotFound
             /\ response.cart = None
             /\ carts = cartsBefore
             /\ saves = 0
        ELSE response.err # CartNotFound

\* An update with a quantity no Quantity accepts, for a user without a cart
\* while the other user has one.
C11_Witness ==
    /\ request.op = "UpdateCartItem"
    /\ request.quantity = -1
    /\ cartsBefore[request.user_id] = None
    /\ carts[Other(request.user_id)] # None
    /\ response.err = CartNotFound

EmailRegistered == ValidationError(<<"Email already registered">>)

\* The committed rows with that email.
RowsOf(email) == {r \in users : r.email = email}

\* C12: a RegisterUser call made when a registration of its email has already
\* succeeded fails with ValidationError("Email already registered") whatever
\* name and password it carries, and leaves the user store with exactly one
\* user of that email, the one with the id, name and password hash of the
\* first call; a call whose email has no user when it ends succeeds.
C12_DuplicateEmailRejected ==
    authRequest.op = "Register" =>
        /\ authRequest.known =>
             /\ authResponse.err = EmailRegistered
             /\ authResponse.result = None
             /\ users = usersBefore
             /\ registered[authRequest.email] # None
             /\ Cardinality(RowsOf(authRequest.email)) = 1
             /\ \A r \in RowsOf(authRequest.email) :
                  /\ r.id = registered[authRequest.email][1].user_id
                  /\ r.name = registered[authRequest.email][1].name
                  /\ r.hashed_password =
                       registered[authRequest.email][1].hashed_password
        /\ (\A r \in usersBefore : r.email # authRequest.email) =>
             authResponse.err = NoError

\* The second call carried another name and another password than the first.
C12_Witness ==
    /\ authRequest.op = "Register"
    /\ authRequest.known
    /\ authResponse.err = EmailRegistered
    /\ registered[authRequest.email] # None
    /\ registered[authRequest.email][1].name # authRequest.name
    /\ registered[authRequest.email][1].password # authRequest.password
    /\ Cardinality(users) = 2

InvalidCredentials == AuthenticationError(<<"Invalid credentials">>)

\* C13: LoginUser with an email that has no user, and LoginUser with the
\* email of a user and another password than the one registered, fail with
\* the same error, AuthenticationError("Invalid credentials"), return nothing,
\* and leave the user store as it was.
C13_LoginFailuresAlike ==
    (/\ authRequest.op = "Login"
     /\ \/ ~authRequest.known
        \/ /\ registered[authRequest.email] # None
           /\ registered[authRequest.email][1].password # authRequest.password)
    => /\ authResponse.err = InvalidCredentials
       /\ authResponse.result = None
       /\ users = usersBefore

\* A wrong password for a registered email, while the other email is unknown.
C13_Witness ==
    /\ authRequest.op = "Login"
    /\ authRequest.known
    /\ registered[authRequest.email][1].password # authRequest.password
    /\ authResponse.err = InvalidCredentials
    /\ Cardinality(users) = 1

\* C14: once RegisterUser has succeeded for (email, name, password), a
\* LoginUser with that email and that password succeeds and returns an
\* AuthResult of token_type "bearer" with the user_id and name registration
\* returned and an access token that verifies as that user_id.
C14_LoginAfterRegister ==
    (/\ authRequest.op = "Login"
     /\ registered[authRequest.email] # None
     /\ registered[authRequest.email][1].password = authRequest.password)
    => /\ authResponse.err = NoError
       /\ authResponse.result # None
       /\ authResponse.result[1].token_type = "bearer"
       /\ authResponse.result[1].user_id = registered[authRequest.email][1].user_id
       /\ authResponse.result[1].name = registered[authRequest.email][1].name
       /\ authResponse.result[1].access_token.payload.type = "access"
       /\ verify(authResponse.result[1].access_token, "access", now).user_id
            = Some(registered[authRequest.email][1].user_id)

\* A login of a user whose hash carries the second salt, with two users stored.
C14_Witness ==
    /\ authRequest.op = "Login"
    /\ authResponse.err = NoError
    /\ registered[authRequest.email] # None
    /\ registered[authRequest.email][1].hashed_password.salt = "s2"
    /\ Cardinality(users) = 2

\* C20: the user store never holds two users with one email; when two
\* RegisterUser requests for one email both pass the find_by_email check
\* before either saves, the save of the second fails (IntegrityError of the
\* unique index) and adds no user.
C20_OneUserPerEmail ==
    /\ \A r1, r2 \in users : r1.email = r2.email => r1 = r2
    /\ (/\ authRequest.op = "Register"
        /\ ~authRequest.known
        /\ \E r \in usersBefore : r.email = authRequest.email)
       => /\ authResponse.err.kind = "IntegrityError"
          /\ authResponse.result = None
          /\ users = usersBefore

\* A registration that passed the email check and then met, at its save, the
\* row another registration of that email had committed meanwhile.
C20_Witness ==
    /\ authRequest.op = "Register"
    /\ ~authRequest.known
    /\ \E r \in users : r.email = authRequest.email
    /\ authResponse.err = IntegrityError(<<"users.email">>)

\* The class of token a route requires.
ExpectedClass(via) == IF via = "refresh" THEN "refresh" ELSE "access"

\* C17: a token signed with the server's key, not yet expired and issued for
\* user u is accepted, as u, exactly where its class is the one required:
\* get_current_user_id accepts access tokens only and the refresh route
\* refresh tokens only; a token of the other class is refused with
\* AuthenticationError and nothing is issued for it.
C17_TokenClassChecked ==
    (/\ presented.via \in {"get_current_user_id", "refresh"}
     /\ presented.token # None
     /\ presented.token[1].key = SECRET_KEY
     /\ presented.token[1].payload.exp > presented.at
     /\ presented.token[1].payload.sub # None)
    => IF presented.token[1].payload.type = ExpectedClass(presented.via)
       THEN /\ outcome.err = NoError
            /\ outcome.user_id = presented.token[1].payload.sub
       ELSE /\ outcome.err.kind = "AuthenticationError"
            /\ outcome.user_id = None
            /\ outcome.access_token = None

\* The refresh cookie, still valid, was sent as a bearer token and refused.
C17_Witness ==
    /\ presented.via = "get_current_user_id"
    /\ presented.token # None
    /\ presented.token = cookie
    /\ presented.token[1].payload.exp > presented.at
    /\ presented.at > 0
    /\ outcome.err = AuthenticationError(<<"Invalid token type">>)

\* C16: a domain error that reaches the transport boundary is answered with
\* the status code of its most specific kind, NotFoundError 404,
\* AuthenticationError 401, AuthorizationError 403, ValidationError 422 and a
\* plain DomainError 400, with its message as detail; an error of one of the
\* four specific kinds is never answered with 400.
C16_StatusOfMostSpecificKind ==
    /\ raised.kind = "NotFoundError" => answered.status_code = 404
    /\ raised.kind = "AuthenticationError" => answered.status_code = 401
    /\ raised.kind = "AuthorizationError" => answered.status_code = 403
    /\ raised.kind = "ValidationError" => answered.status_code = 422
    /\ raised.kind = "DomainError" => answered.status_code = 400
    /\ BaseOf(raised.kind) = "DomainError" =>
         /\ answered.status_code # 400
         /\ answered.detail = raised.message

\* The login failure of test_login_invalid_credentials was answered.
C16_Witness ==
    /\ raised = AuthenticationError(<<"Invalid credentials">>)
    /\ answered = [status_code |-> 401, detail |-> <<"Invalid credentials">>]

\* C15: end to end for the registered user and an existing product: GET cart
\* is empty; adding the product with quantity 2 succeeds and GET then shows
\* exactly one item, of quantity 2; PATCH to 5 succeeds and GET shows quantity
\* 5; DELETE succeeds and GET shows no item. No step of this lifecycle, made
\* in this order by the user alone, fails or answers with other items.
C15_LifecycleSucceeds == stage # -1

\* C18: when two AddToCart requests of one user both read the same stored
\* cart before either saves, then once both have ended the stored cart
\* reflects exactly one of the two additions: it is the cart one of the two
\* requests saved, and that request succeeded (an update is lost, the core
\* locks nothing against it).
C18_OneAdditionStored ==
    Len(raceDone) = 2 =>
        \E i \in 1..2 :
            /\ raceDone[i].err = NoError
            /\ raceDone[2].stored = Some(raceDone[i].items)

\* All the cart rows there are: committed, or flushed in a transaction.
AllCartRows == cartRows \cup SqlPending(0)

\* C19: the cart store never holds two carts of one user, whatever GetCart,
\* AddToCart, RemoveFromCart and UpdateCartItem requests were made, also when
\* two first AddToCart requests of a user interleave so that both find no
\* cart and both insert one.
C19_OneCartPerUser ==
    \A r1, r2 \in AllCartRows : r1.user_id = r2.user_id => r1.id = r2.id

\* Both requests found no cart; the first has ended after its insert and the
\* second has now flushed an insert of its own.
C19_Witness ==
    /\ Len(raceDone) = 1
    /\ \E p \in Procs :
         /\ sql[p].raced
         /\ sql[p].pc = "end"
         /\ sql[p].seen = None
         /\ sql[p].existing = None
         /\ sql[p].row # None
         /\ sql[p].input.user_id = raceDone[1].user_id

\* C21: UserRepository.save is insert-or-update: saving a user whose id is
\* already stored, or a user with a new id, does not fail, and afterwards the
\* store holds exactly one record with that id, carrying the saved values,
\* and the records of the other ids as before (the email of the saved user
\* being that of no other stored user).
C21_SaveIsInsertOrUpdate ==
    userSave.user # None =>
        LET user == userSave.user[1]
        IN  (\A r \in userSave.rows : r.email = user.email => r.id = user.id) =>
                /\ userSave.err = NoError
                /\ {r \in userRows : r.id = user.id} = {user}
                /\ {r \in userRows : r.id # user.id}
                       = {r \in userSave.rows : r.id # user.id}

\* The error the Cart method of the request raises on the items `its`, or the
\* construction of its Quantity before it; NoError if neither fails.
DomainFailure(req, its) ==
    IF req.op = "RemoveFromCart"
    THEN remove_item(its, req.product_id).err
    ELSE IF Quantity(req.quantity).err # NoError
    THEN Quantity(req.quantity).err
    ELSE update_item_quantity(its, req.product_id, req.quantity).err

\* C22: use cases never catch domain errors: when RemoveFromCart or
\* UpdateCartItem finds the user's cart and the Cart method it calls fails
\* (item not in the cart, or invalid quantity), the use case ends with that
\* same error, kind and message, save was not called, and the stored carts
\* are the same as before the request.
C22_DomainErrorsPropagate ==
    (/\ request.op \in {"RemoveFromCart", "UpdateCartItem"}
     /\ cartsBefore[request.user_id] # None
     /\ DomainFailure(request, cartsBefore[request.user_id][1].items) # NoError)
    => /\ response.err = DomainFailure(request, cartsBefore[request.user_id][1].items)
       /\ response.cart = None
       /\ saves = 0
       /\ carts = cartsBefore

\* UpdateCartItem for a product that is not in the user's cart, which holds
\* another item, ended with NotFoundError.
C22_Witness ==
    /\ request.op = "UpdateCartItem"
    /\ request.quantity > 0
    /\ cartsBefore[request.user_id] # None
    /\ cartsBefore[request.user_id][1].items # <<>>
    /\ response.err.kind = "NotFoundError"
    /\ response.err # CartNotFound
    /\ saves = 0

\* The amounts a Price is built with here: the catalogue prices, zero and a
\* negative one.
Amounts == {PriceOf(p) : p \in ProductIds} \cup {0, -1}

\* Every item of the cart holds a quantity >= 0 and, if its product is
\* resolved, a price >= 0.
NonNegative(cart) ==
    \A i \in 1..Len(cart.items) :
        /\ cart.items[i].quantity >= 0
        /\ cart.items[i].product # None => cart.items[i].product[1].price >= 0

\* C23: a Price or a Quantity exists only with a non-negative value:
\* construction with a negative value fails with ValidationError, with zero
\* or a positive value it succeeds and keeps the value; a request that
\* constructs a Quantity of a negative value ends with that ValidationError;
\* and every quantity of an item and every price of a product, in the stored
\* carts and in the cart a request returned, is >= 0.
C23_ValuesNonNegative ==
    /\ \A v \in -1..MaxItemQty :
         /\ v < 0 => Quantity(v).err = ValidationError(<<"Quantity cannot be negative">>)
         /\ v >= 0 => Quantity(v).err = NoError /\ Quantity(v).value = v
    /\ \A a \in Amounts :
         /\ a < 0 => Price(a).err = ValidationError(<<"Price cannot be negative">>)
         /\ a >= 0 => Price(a).err = NoError /\ Price(a).amount = a
    /\ (/\ request.quantity < 0
        /\ \/ request.op = "AddToCart" /\ request.product_id \in KnownProductIds
           \/ request.op = "UpdateCartItem" /\ cartsBefore[request.user_id] # None)
       => response.err = ValidationError(<<"Quantity cannot be negative">>)
    /\ \A u \in UserIds : carts[u] # None => NonNegative(carts[u][1])
    /\ response.cart # None => NonNegative(response.cart[1])

\* AddToCart with a negative quantity, for a user whose stored cart holds an
\* item, was refused at the construction of its Quantity.
C23_Witness ==
    /\ request.op = "AddToCart"
    /\ request.quantity < 0
    /\ response.err = ValidationError(<<"Quantity cannot be negative">>)
    /\ carts[request.user_id] # None
    /\ carts[request.user_id][1].items # <<>>

\* C24: every user RegisterUser created is stored with role customer,
\* whatever name, email and password the registration carried: no stored or
\* flushed row of the users table has role admin, and require_admin fails
\* with AuthorizationError for the id of every stored user.
C24_RegisteredAreCustomers ==
    /\ \A r \in users \cup Pending(0) : r.role = "customer"
    /\ \A r \in users :
         require_admin(users, r.id) =
             [err |-> AuthorizationError(<<"Admin access required">>), user_id |-> None]

\* Both emails are registered, by registrations that carried different names
\* and passwords.
C24_Witness ==
    /\ Cardinality(users) = 2
    /\ \E e1, e2 \in Emails :
         /\ registered[e1] # None /\ registered[e2] # None
         /\ registered[e1][1].name # registered[e2][1].name
         /\ registered[e1][1].password # registered[e2][1].password

\* C25: after any sequence of sequential, successful AddToCart requests of
\* one user (no removal or update asked for), a following GetCart returns
\* exactly one item for each distinct product added, with the sum of the
\* quantities requested for that product, and no other item; the cart
\* returned and stored still has the id the first request created.
C25_AddsAccumulate ==
    (/\ request.op = "GetCart"
     /\ addSeq[request.user_id].only
     /\ addSeq[request.user_id].ids # {})
    => LET seq == addSeq[request.user_id]
           its == response.cart[1].items
       IN  /\ response.err = NoError
           /\ \A p \in seq.ids :
                /\ Cardinality(Matching(its, p)) = 1
                /\ \A i \in Matching(its, p) : its[i].quantity = seq.sum[p]
           /\ \A i \in 1..Len(its) : its[i].product_id \in seq.ids
           /\ response.cart[1].id = seq.cart_id[1]
           /\ carts[request.user_id] = response.cart

\* GetCart after the user added two products, one of them in two requests.
C25_Witness ==
    /\ request.op = "GetCart"
    /\ addSeq[request.user_id].only
    /\ Cardinality(addSeq[request.user_id].ids) = 2
    /\ \E p \in ProductIds :
         /\ addSeq[request.user_id].sum[p] = 2
         /\ \E i \in Matching(response.cart[1].items, p) :
              response.cart[1].items[i].quantity = 2
    /\ Len(response.cart[1].items) = 2

RECURSIVE Subtotals(_)
\* The subtotals of the item responses `its` together.
Subtotals(its) == IF its = <<>> THEN 0 ELSE Head(its).subtotal + Subtotals(Tail(its))

\* The response the cart under test is mapped to.
CartResponse == cart_to_response(Cart("c1", "u1", items))

\* C26: in the response cart_to_response builds of a cart, total is the sum
\* of the items' subtotals and each subtotal is the reported price times the
\* reported quantity; an item whose product is not resolved is reported with
\* price 0, empty name and subtotal 0, and a resolved one with the price and
\* name of its product; every item of the cart is reported, in order.
C26_ResponseTotals ==
    /\ CartResponse.total = Subtotals(CartResponse.items)
    /\ Len(CartResponse.items) = Len(items)
    /\ \A i \in 1..Len(items) :
         LET r == CartResponse.items[i]
         IN  /\ r.product_id = items[i].product_id
             /\ r.quantity = items[i].quantity
             /\ r.subtotal = r.price * r.quantity
             /\ items[i].product = None =>
                    r.price = 0 /\ r.name = "" /\ r.subtotal = 0
             /\ items[i].product # None =>
                    r.price = PriceOf(items[i].product_id)
                    /\ r.name = NameOf(items[i].product_id)

\* The cart holds an item whose product is not resolved, of quantity 2, and a
\* resolved item of quantity 2.
C26_Witness ==
    /\ \E i \in 1..Len(items) : items[i].product = None /\ items[i].quantity = 2
    /\ \E i \in 1..Len(items) : items[i].product # None /\ items[i].quantity = 2
    /\ CartResponse.total > 0

\* C27: each request runs in one session, committed only if the request
\* finishes without an exception and rolled back otherwise: the stored carts
\* change only in the step that ends a request without an error, and the
\* step that ends a request with an error, also one whose save had already
\* flushed its rows, leaves the stored carts as they were.
C27_CommitOnlyOnSuccess ==
    [][/\ cartRows' # cartRows =>
            \E p \in Procs : /\ sql[p].pc = "end"
                             /\ sql[p].err = NoError
                             /\ sql'[p] = SqlIdle
       /\ \A p \in Procs :
            (sql[p].pc = "end" /\ sql[p].err # NoError /\ sql'[p] = SqlIdle)
                => cartRows' = cartRows]_vars

\* Two requests whose saves had flushed a cart row ended with the exception
\* raised after the flush, and the table holds no row of theirs.
C27_Witness ==
    /\ Len(raceDone) = 2
    /\ \A i \in 1..2 : raceDone[i].err.kind = "TypeError" /\ raceDone[i].stored = None
    /\ cartRows = {}

\* C28: UpdateCartItem looks the cart up before it validates the quantity:
\* with a negative quantity it fails with NotFoundError("Cart not found")
\* when the user has no stored cart and with ValidationError when the cart
\* exists (whether or not the product is in it); in both cases save is not
\* called and the stored carts are unchanged.
C28_LookupBeforeValidation ==
    (request.op = "UpdateCartItem" /\ request.quantity < 0)
    => /\ response.err = IF cartsBefore[request.user_id] = None
                         THEN CartNotFound
                         ELSE ValidationError(<<"Quantity cannot be negative">>)
       /\ response.cart = None
       /\ saves = 0
       /\ carts = cartsBefore

\* UpdateCartItem with a negative quantity for a user without a cart, while
\* another user has one, failed with "Cart not found".
C28_Witness ==
    /\ request.op = "UpdateCartItem"
    /\ request.quantity < 0
    /\ cartsBefore[request.user_id] = None
    /\ \E u \in UserIds : cartsBefore[u] # None
    /\ response.err = CartNotFound

\* C29: GetCart never writes: it does not call save and the cart repository
\* is the same after it as before; the empty cart it returns to a user
\* without a stored cart, under a fresh id, is only in the response; and a
\* user who so far made only GetCart requests, and requests to add that
\* failed, has no stored cart.
C29_GetCartNeverWrites ==
    /\ request.op = "GetCart" =>
         /\ saves = 0
         /\ carts = cartsBefore
         /\ cartsBefore[request.user_id] = None =>
              /\ carts[request.user_id] = None
              /\ response.cart[1].id \notin StoredIds(carts)
    /\ \A u \in UserIds :
         (addSeq[u].only /\ addSeq[u].ids = {}) => carts[u] = None

\* GetCart of a user without a stored cart, while the other user has one with
\* an item: the empty cart was returned and none stored.
C29_Witness ==
    /\ request.op = "GetCart"
    /\ cartsBefore[request.user_id] = None
    /\ response.cart # None
    /\ response.cart[1].items = <<>>
    /\ carts[request.user_id] = None
    /\ carts[Other(request.user_id)] # None
    /\ carts[Other(request.user_id)][1].items # <<>>

\* C30: if every add_item call carried a quantity >= 1, then after any
\* sequence of add_item, remove_item and update_item_quantity calls every
\* item of the cart has a quantity >= 1: an update to 0 removes the item
\* instead of storing 0, and no call lowers a quantity to 0 in place.
C30_QuantitiesPositive ==
    positive =>
        /\ \A i \in 1..Len(items) : items[i].quantity >= 1
        /\ (call.op = "update_item_quantity" /\ call.quantity = 0 /\ err = NoError)
               => Matching(items, call.product_id) = {}

\* After additions of quantity >= 1 only, an update to 0 took one item out of
\* a cart that still holds another.
C30_Witness ==
    /\ positive
    /\ call.op = "update_item_quantity"
    /\ call.quantity = 0
    /\ err = NoError
    /\ Len(before) = 2
    /\ Len(items) = 1

====
